---- MODULE Spec2Model ----
(***************************************************************************)
(* A model of tui-canvas: Cell (src/src/cell.rs), Grid (src/src/grid.rs)   *)
(* and the mouse helpers (src/src/input/mouse.rs).                         *)
(*                                                                         *)
(* Option<T> is modelled as a sequence of length at most one: None is <<>> *)
(* and Some(v) is <<v>>.  A String is a sequence of Unicode code points;   *)
(* String::len() is the number of bytes of its UTF-8 encoding.             *)
(***************************************************************************)
EXTENDS Integers, Sequences, FiniteSets, TLC

VARIABLES
    grid,          \* Grid.grid: rows of Option<Cell>, grid[y][x]
    changes,       \* Grid.changes: Vec<Point>
    width,         \* Grid.width
    height,        \* Grid.height
    terminal,      \* the screen: (column, row) -> what is displayed there
    mouseCapture,  \* whether the terminal reports mouse events
    sets,          \* number of set_cell calls that returned Ok so far
    draws,         \* number of draw() calls made so far
    painted,       \* whether a draw() has rendered the whole grid and returned Ok
    last           \* the last call: its name, arguments and return value

vars == <<grid, changes, width, height, terminal, mouseCapture, sets, draws,
          painted, last>>

-----------------------------------------------------------------------------
(* Bounds of the model *)

MaxWidth == 2
MaxHeight == 2
MaxCells == 4
MaxCalls == 3
MaxStrLen == 3

\* the number of values of a u16
U16 == 65536

-----------------------------------------------------------------------------
(* Option *)

None == <<>>
Some(v) == <<v>>
IsSome(o) == Len(o) = 1
Unwrap(o) == o[1]

-----------------------------------------------------------------------------
(* Cell: src/src/cell.rs *)

Colors == {"White", "Red"}

\* code points: ' ', 'a', 'b', U+00E9 (2 bytes in UTF-8), U+20AC (3 bytes)
Chars == {32, 97, 98, 233, 8364}

\* char::len_utf8
Utf8Len(ch) ==
    IF ch < 128 THEN 1
    ELSE IF ch < 2048 THEN 2
    ELSE IF ch < 65536 THEN 3
    ELSE 4

RECURSIVE StringLen(_)
\* String::len(): the length in bytes
StringLen(s) ==
    IF s = <<>> THEN 0 ELSE Utf8Len(Head(s)) + StringLen(Tail(s))

\* the number of characters of a string (s.chars().count())
CharCount(s) == Len(s)

Cell_build(color, value) ==
    IF StringLen(value) = 2
    THEN Some([color |-> color, value |-> value])
    ELSE None

Cell_default == Unwrap(Cell_build("White", <<32, 32>>))

RECURSIVE StringsOfLen(_)
StringsOfLen(n) ==
    IF n = 0 THEN {<<>>}
    ELSE {<<c>> \o s : c \in Chars, s \in StringsOfLen(n - 1)}

Strings == UNION {StringsOfLen(n) : n \in 0..MaxStrLen}

-----------------------------------------------------------------------------
(* Grid: src/src/grid.rs *)

Point_new(x, y) == [x |-> x, y |-> y]

Self == [grid |-> grid, changes |-> changes, width |-> width, height |-> height]

Grid_new_swapped(w, h) ==
    [grid    |-> [y \in 0..(w - 1) |-> [x \in 0..(h - 1) |-> None]],
     changes |-> <<>>,
     width   |-> h,
     height  |-> w]

\* vec![vec![None; width]; height], no change recorded
Grid_new(w, h) ==
    [grid    |-> [y \in 0..(h - 1) |-> [x \in 0..(w - 1) |-> None]],
     changes |-> <<>>,
     width   |-> w,
     height  |-> h]

\* assert!(width > 0); assert!(height > 0)
Grid_new_panics(w, h) == ~(w > 0) \/ ~(h > 0)

\* a - b on u16: with overflow checks (a debug build) an overflow panics,
\* here None; without them (a release build) the result wraps
u16_sub(a, b, checks) ==
    IF a >= b THEN Some(a - b)
    ELSE IF checks THEN None
    ELSE Some((a - b + U16) % U16)

\* size: what crossterm::terminal::size() returns
new_full_screen(size, checks) ==
    IF size.tag = "Err" THEN [tag |-> "Err"]
    ELSE LET actual_width == u16_sub(size.columns, 1, checks)
             actual_height == u16_sub(size.rows, 1, checks)
         IN  IF actual_width = None \/ actual_height = None
             THEN [tag |-> "Panic"]
             ELSE IF Grid_new_panics(Unwrap(actual_width), Unwrap(actual_height))
             THEN [tag |-> "Panic"]
             ELSE [tag |-> "Ok",
                   grid |-> Grid_new(Unwrap(actual_width), Unwrap(actual_height))]

set_cell_off_by_one(self, x, y, cell) ==
    IF x > self.width \/ y > self.height
    THEN [self |-> self, result |-> "Err"]
    ELSE [self |-> [self EXCEPT !.grid[y][x] = cell,
                                !.changes = Append(@, Point_new(x, y))],
          result |-> "Ok"]

set_cell_transposed(self, x, y, cell) ==
    IF x >= self.width \/ y >= self.height
    THEN [self |-> self, result |-> "Err"]
    ELSE [self |-> [self EXCEPT !.grid[x][y] = cell,
                                !.changes = Append(@, Point_new(x, y))],
          result |-> "Ok"]

set_cell_truncating(self, x, y, cell) ==
    IF x >= self.width \/ y >= self.height
    THEN [self |-> self, result |-> "Err"]
    ELSE [self |-> [self EXCEPT
                       !.grid[y] = [i \in 0..x |-> IF i = x THEN cell ELSE @[i]],
                       !.changes = Append(@, Point_new(x, y))],
          result |-> "Ok"]

set_cell_point_swapped(self, x, y, cell) ==
    IF x >= self.width \/ y >= self.height
    THEN [self |-> self, result |-> "Err"]
    ELSE [self |-> [self EXCEPT !.grid[y][x] = cell,
                                !.changes = Append(@, Point_new(y, x))],
          result |-> "Ok"]

set_cell(self, x, y, cell) ==
    IF x >= self.width \/ y >= self.height
    THEN [self |-> self, result |-> "Err"]
    ELSE [self |-> [self EXCEPT !.grid[y][x] = cell,
                                !.changes = Append(@, Point_new(x, y))],
          result |-> "Ok"]

get_cell_transposed(self, x, y) ==
    IF x \notin DOMAIN self.grid THEN None
    ELSE IF y \notin DOMAIN self.grid[x] THEN None
    ELSE self.grid[x][y]

\* self.grid.get(y)?.clone().get(x)?.clone()
get_cell(self, x, y) ==
    IF y \notin DOMAIN self.grid THEN None
    ELSE IF x \notin DOMAIN self.grid[y] THEN None
    ELSE self.grid[y][x]

\* the order of the loops of draw_all: for y in 0..height { for x in 0..width }
AllPoints(self) ==
    [i \in 1..(self.width * self.height) |->
        Point_new((i - 1) % self.width, (i - 1) \div self.width)]

-----------------------------------------------------------------------------
(* The terminal: each screen position shows a background colour and a      *)
(* character; Unpainted is a position nothing has been written to.         *)

Unpainted == [bg |-> "Unpainted", ch |-> 0]

Screen(w, h) == [p \in (0..(2 * w - 1)) \X (0..(h - 1)) |-> Unpainted]

\* Print(text) at MoveTo(col, row) with the background bg: one character per
\* column, left to right
PrintAt(term, col, row, bg, text) ==
    [p \in DOMAIN term |->
        IF p[2] = row /\ p[1] >= col /\ p[1] < col + Len(text)
        THEN [bg |-> bg, ch |-> text[p[1] - col + 1]]
        ELSE term[p]]

draw_cell_unscaled(term, x, y, cell) ==
    PrintAt(term, x, y, cell.color, cell.value)

\* MoveTo(x * 2, y), SetBackgroundColor(cell.color()), Print(cell.value())
draw_cell(term, x, y, cell) ==
    PrintAt(term, (x * 2) % U16, y, cell.color, cell.value)

\* MoveTo(x * 2, y), SetBackgroundColor(Color::Reset), Print("  ")
erase_cell(term, x, y) ==
    PrintAt(term, (x * 2) % U16, y, "Reset", <<32, 32>>)

RECURSIVE render(_, _, _, _)
\* the screen after the first n iterations of the loop body of draw_changes
\* and draw_all over the points pts
render(self, term, pts, n) ==
    IF n = 0 THEN term
    ELSE LET before == render(self, term, pts, n - 1)
             x == pts[n].x
             y == pts[n].y
         IN  IF IsSome(self.grid[y][x])
             THEN draw_cell(before, x, y, Unwrap(self.grid[y][x]))
             ELSE erase_cell(before, x, y)

\* the draw_cell / erase_cell calls that returned Ok, in order
Rendered(self, pts, n) ==
    [i \in 1..n |-> [x |-> pts[i].x, y |-> pts[i].y,
                     cell |-> self.grid[pts[i].y][pts[i].x]]]

\* failAt = 0: every terminal write succeeds; failAt = k: the k-th
\* draw_cell / erase_cell of the call returns Err and `?` returns it
Completed(pts, failAt) ==
    IF failAt \in 1..Len(pts) THEN failAt - 1 ELSE Len(pts)

draw_changes_keep(self, term, failAt) ==
    LET n == Completed(self.changes, failAt)
    IN  [self     |-> self,
         terminal |-> render(self, term, self.changes, n),
         rendered |-> Rendered(self, self.changes, n),
         result   |-> IF n < Len(self.changes) THEN "Err" ELSE "Ok"]

draw_changes_clearing_first(self, term, failAt) ==
    LET n == Completed(self.changes, failAt)
    IN  [self     |-> [self EXCEPT !.changes = <<>>],
         terminal |-> render(self, term, self.changes, n),
         rendered |-> Rendered(self, self.changes, n),
         result   |-> IF n < Len(self.changes) THEN "Err" ELSE "Ok"]

draw_changes(self, term, failAt) ==
    LET n == Completed(self.changes, failAt)
    IN  IF n < Len(self.changes)
        THEN [self     |-> self,
              terminal |-> render(self, term, self.changes, n),
              rendered |-> Rendered(self, self.changes, n),
              result   |-> "Err"]
        ELSE [self     |-> [self EXCEPT !.changes = <<>>],
              terminal |-> render(self, term, self.changes, n),
              rendered |-> Rendered(self, self.changes, n),
              result   |-> "Ok"]

draw_all_first_row(self, term, failAt) ==
    LET pts == SubSeq(AllPoints(self), 1, self.width)
        n == Completed(pts, failAt)
    IN  [self     |-> self,
         terminal |-> render(self, term, pts, n),
         rendered |-> Rendered(self, pts, n),
         result   |-> IF n < Len(pts) THEN "Err" ELSE "Ok"]

draw_all(self, term, failAt) ==
    LET pts == AllPoints(self)
        n == Completed(pts, failAt)
    IN  [self     |-> self,
         terminal |-> render(self, term, pts, n),
         rendered |-> Rendered(self, pts, n),
         result   |-> IF n < Len(pts) THEN "Err" ELSE "Ok"]

draw_never_rendered(self, term, failAt) ==
    IF draws = 0
    THEN [draw_all(self, term, failAt) EXCEPT !.self.changes = <<>>]
    ELSE draw_changes(self, term, failAt)

draw(self, term, failAt) ==
    IF self.changes = <<>>
    THEN draw_all(self, term, failAt)
    ELSE draw_changes(self, term, failAt)

\* x.try_into() for a u16: None when x does not fit, which expect() turns
\* into a panic
try_into_u16(n) == IF n < U16 THEN Some(n) ELSE None

\* a * b on u16, as u16_sub
u16_mul(a, b, checks) ==
    IF a * b < U16 THEN Some(a * b)
    ELSE IF checks THEN None
    ELSE Some((a * b) % U16)

\* What the loop body of draw_changes and draw_all does with the point (x, y)
\* before it writes: both coordinates are converted to u16 and draw_cell /
\* erase_cell move the cursor to (x * 2, y).
terminal_position(x, y, checks) ==
    IF try_into_u16(x) = None \/ try_into_u16(y) = None
    THEN [tag |-> "Panic"]
    ELSE LET column == u16_mul(Unwrap(try_into_u16(x)), 2, checks)
         IN  IF column = None
             THEN [tag |-> "Panic"]
             ELSE [tag |-> "Ok", column |-> Unwrap(column),
                   row |-> Unwrap(try_into_u16(y))]

\* the number of terminal writes a draw() of self attempts
Writes(self) ==
    IF self.changes = <<>> THEN self.width * self.height ELSE Len(self.changes)

-----------------------------------------------------------------------------
(* The program: a grid, and the calls a driver makes on it *)

\* the sizes Grid::new is called with: at most MaxCells cells
Dims == {d \in (1..MaxWidth) \X (1..MaxHeight) : d[1] * d[2] <= MaxCells}

\* the cells the driver passes to set_cell: Some(Cell::default()) and None
CellArgs == {None, Some(Cell_default)}

InitGrid(w, h) ==
    /\ grid = Grid_new(w, h).grid
    /\ changes = Grid_new(w, h).changes
    /\ width = Grid_new(w, h).width
    /\ height = Grid_new(w, h).height
    /\ terminal = Screen(w, h)
    /\ mouseCapture = FALSE
    /\ sets = 0
    /\ draws = 0
    /\ painted = FALSE

Init ==
    \E d \in Dims :
        /\ InitGrid(d[1], d[2])
        /\ last = [op |-> "new", width |-> d[1], height |-> d[2]]

SetCell(x, y, cell) ==
    LET r == set_cell(Self, x, y, cell)
    IN  /\ r.result = "Ok" => sets + draws < MaxCalls
        /\ grid' = r.self.grid
        /\ changes' = r.self.changes
        /\ width' = r.self.width
        /\ height' = r.self.height
        /\ sets' = IF r.result = "Ok" THEN sets + 1 ELSE sets
        /\ last' = [op |-> "set_cell", x |-> x, y |-> y, cell |-> cell,
                    result |-> r.result]
        /\ UNCHANGED <<terminal, mouseCapture, draws, painted>>

GetCell(x, y) ==
    /\ last' = [op |-> "get_cell", x |-> x, y |-> y,
                result |-> get_cell(Self, x, y)]
    /\ UNCHANGED <<grid, changes, width, height, terminal, mouseCapture,
                   sets, draws, painted>>

Draw(failAt) ==
    LET r == draw(Self, terminal, failAt)
    IN  /\ sets + draws < MaxCalls
        /\ grid' = r.self.grid
        /\ changes' = r.self.changes
        /\ width' = r.self.width
        /\ height' = r.self.height
        /\ terminal' = r.terminal
        /\ draws' = draws + 1
        /\ painted' = (painted \/ (changes = <<>> /\ r.result = "Ok"))
        /\ last' = [op |-> "draw", result |-> r.result, rendered |-> r.rendered]
        /\ UNCHANGED <<mouseCapture, sets>>

Next ==
    \/ \E x \in 0..width, y \in 0..height, cell \in CellArgs : SetCell(x, y, cell)
    \/ \E x \in 0..width, y \in 0..height : GetCell(x, y)
    \/ \E failAt \in 0..Writes(Self) : Draw(failAt)

Spec == Init /\ [][Next]_vars

-----------------------------------------------------------------------------
(* The same program with a driver that also passes a cell whose value is   *)
(* the single character U+00E9, which Cell::build accepts.                 *)

BuiltCellArgs == CellArgs \cup {Cell_build("Red", <<233>>)}

NextBuilt ==
    \/ \E x \in 0..width, y \in 0..height, cell \in BuiltCellArgs :
            SetCell(x, y, cell)
    \/ \E x \in 0..width, y \in 0..height : GetCell(x, y)
    \/ \E failAt \in 0..Writes(Self) : Draw(failAt)

SpecBuilt == Init /\ [][NextBuilt]_vars

-----------------------------------------------------------------------------
(* A program that sizes its grid to the terminal: it starts without a grid *)
(* and calls Grid::new_full_screen once, then queries the grid.            *)

\* what the size query returns: a size, from that of an empty terminal
\* upwards, or a failure
SizeResults ==
    {[tag |-> "Ok", columns |-> c, rows |-> r] :
        c \in 0..(MaxWidth + 2), r \in 0..(MaxHeight + 2)}
    \cup {[tag |-> "Err"]}

InitStart ==
    /\ grid = <<>>
    /\ changes = <<>>
    /\ width = 0
    /\ height = 0
    /\ terminal = <<>>
    /\ mouseCapture = FALSE
    /\ sets = 0
    /\ draws = 0
    /\ painted = FALSE
    /\ last = [op |-> "start"]

\* An empty terminal in a build without overflow checks asks for a grid of
\* 65535 x 65535 cells, which is left out.
NewFullScreen(size, checks) ==
    LET r == new_full_screen(size, checks)
    IN  /\ last.op = "start"
        /\ ~(~checks /\ size.tag = "Ok" /\ size.columns = 0 /\ size.rows = 0)
        /\ IF r.tag = "Ok"
           THEN /\ grid' = r.grid.grid
                /\ changes' = r.grid.changes
                /\ width' = r.grid.width
                /\ height' = r.grid.height
                /\ terminal' = Screen(r.grid.width, r.grid.height)
           ELSE UNCHANGED <<grid, changes, width, height, terminal>>
        /\ last' = [op |-> "new_full_screen", size |-> size, checks |-> checks,
                    result |-> r.tag]
        /\ UNCHANGED <<mouseCapture, sets, draws, painted>>

\* get_cell at the corners of the grid and one past them
QueryScreen(x, y) ==
    /\ last.op # "start"
    /\ grid # <<>>
    /\ GetCell(x, y)

NextScreen ==
    \/ \E size \in SizeResults, checks \in BOOLEAN : NewFullScreen(size, checks)
    \/ \E x \in {0, width - 1, width}, y \in {0, height - 1, height} :
            QueryScreen(x, y)

SpecScreen == InitStart /\ [][NextScreen]_vars

-----------------------------------------------------------------------------
(* The coordinate conversion of draw() on its own, for grids up to and     *)
(* beyond the range of a u16.  The grid itself is not built: draw_all      *)
(* visits every (x, y) with x < width and y < height, and so does          *)
(* draw_changes, whose points set_cell has checked.                        *)

\* widths and heights around the limits of the conversion
Sizes == {1, 2, U16 \div 2, U16 \div 2 + 1, U16, U16 + 1}

Coordinates == {n - 1 : n \in Sizes}

InitVisit ==
    /\ InitGrid(1, 1)
    /\ last = [op |-> "none"]

Visit(w, h, x, y, checks) ==
    /\ ~Grid_new_panics(w, h)
    /\ x < w
    /\ y < h
    /\ last' = [op |-> "visit", width |-> w, height |-> h, x |-> x, y |-> y,
                checks |-> checks, result |-> terminal_position(x, y, checks)]
    /\ UNCHANGED <<grid, changes, width, height, terminal, mouseCapture,
                   sets, draws, painted>>

NextVisit ==
    \E w \in Sizes, h \in Sizes, x \in Coordinates, y \in Coordinates,
       checks \in BOOLEAN : Visit(w, h, x, y, checks)

SpecVisit == InitVisit /\ [][NextVisit]_vars

-----------------------------------------------------------------------------
(* Cell construction on its own: every colour and every string of at most  *)
(* MaxStrLen characters over Chars is given to Cell::build.                *)

InitCell ==
    /\ InitGrid(1, 1)
    /\ last = [op |-> "none"]

CellBuild(color, value) ==
    /\ last' = [op |-> "build", color |-> color, value |-> value,
                result |-> Cell_build(color, value)]
    /\ UNCHANGED <<grid, changes, width, height, terminal, mouseCapture,
                   sets, draws, painted>>

CellDefault ==
    /\ last' = [op |-> "default", result |-> Some(Cell_default)]
    /\ UNCHANGED <<grid, changes, width, height, terminal, mouseCapture,
                   sets, draws, painted>>

NextCell ==
    \/ \E color \in Colors, value \in Strings : CellBuild(color, value)
    \/ CellDefault

SpecCell == InitCell /\ [][NextCell]_vars

-----------------------------------------------------------------------------
(* Mouse input: src/src/input/mouse.rs *)

Buttons == {"Left", "Right"}

Down(button) == <<"Down", button>>
Drag(button) == <<"Drag", button>>
Moved == <<"Moved">>

MouseEventKinds == {Down(b) : b \in Buttons} \cup {Drag(b) : b \in Buttons}
                   \cup {Moved}

\* the events read() can return for a grid of w x h cells: a key press, or a
\* mouse event on the grid's part of the screen, on the column next to it or
\* on the row below it
Events(w, h) ==
    [type : {"Mouse"}, kind : MouseEventKinds,
     column : 0..(2 * w + 1), row : 0..h]
    \cup {[type |-> "Key"]}

\* What the terminal does during one call: io.enable, whether the write of
\* EnableMouseCapture succeeds; io.read, what read() returns, when it is
\* called; io.disable, whether the write of DisableMouseCapture succeeds,
\* when it is made.
IoOutcomes(w, h) ==
    {[enable |-> FALSE]}
    \cup {[enable |-> TRUE, read |-> [tag |-> "Err"]]}
    \cup {[enable |-> TRUE, read |-> [tag |-> "Ok", event |-> e], disable |-> d] :
            e \in Events(w, h), d \in BOOLEAN}

\* execute!(stdout, event::DisableMouseCapture)?; return Ok(val)
DisableAndReturn(io, val) ==
    IF io.disable
    THEN [result |-> [tag |-> "Ok", val |-> val], capture |-> FALSE]
    ELSE [result |-> [tag |-> "Err"], capture |-> TRUE]

get_mouse_click_no_halving(self, button, io, capture) ==
    IF ~io.enable THEN [result |-> [tag |-> "Err"], capture |-> capture]
    ELSE IF io.read.tag = "Err" THEN [result |-> [tag |-> "Err"], capture |-> TRUE]
    ELSE IF io.read.event.type = "Mouse" /\ io.read.event.kind = Down(button)
    THEN LET x == io.read.event.column
             y == io.read.event.row
         IN  IF x >= self.width /\ y >= self.height
             THEN DisableAndReturn(io, None)
             ELSE DisableAndReturn(io, Some(<<x, y>>))
    ELSE DisableAndReturn(io, None)

get_mouse_click(self, button, io, capture) ==
    IF ~io.enable THEN [result |-> [tag |-> "Err"], capture |-> capture]
    ELSE IF io.read.tag = "Err" THEN [result |-> [tag |-> "Err"], capture |-> TRUE]
    ELSE IF io.read.event.type = "Mouse" /\ io.read.event.kind = Down(button)
    THEN LET x == io.read.event.column \div 2
             y == io.read.event.row
         IN  IF x >= self.width /\ y >= self.height
             THEN DisableAndReturn(io, None)
             ELSE DisableAndReturn(io, Some(<<x, y>>))
    ELSE DisableAndReturn(io, None)

get_mouse_click_or_drag_any_button(self, button, io, capture) ==
    IF ~io.enable THEN [result |-> [tag |-> "Err"], capture |-> capture]
    ELSE IF io.read.tag = "Err" THEN [result |-> [tag |-> "Err"], capture |-> TRUE]
    ELSE IF /\ io.read.event.type = "Mouse"
            /\ \/ io.read.event.kind = Down(button)
               \/ io.read.event.kind[1] = "Drag"
    THEN LET x == io.read.event.column \div 2
             y == io.read.event.row
         IN  IF x >= self.width /\ y >= self.height
             THEN DisableAndReturn(io, None)
             ELSE DisableAndReturn(io, Some(<<x, y>>))
    ELSE DisableAndReturn(io, None)

get_mouse_click_or_drag(self, button, io, capture) ==
    IF ~io.enable THEN [result |-> [tag |-> "Err"], capture |-> capture]
    ELSE IF io.read.tag = "Err" THEN [result |-> [tag |-> "Err"], capture |-> TRUE]
    ELSE IF /\ io.read.event.type = "Mouse"
            /\ \/ io.read.event.kind = Down(button)
               \/ io.read.event.kind = Drag(button)
    THEN LET x == io.read.event.column \div 2
             y == io.read.event.row
         IN  IF x >= self.width /\ y >= self.height
             THEN DisableAndReturn(io, None)
             ELSE DisableAndReturn(io, Some(<<x, y>>))
    ELSE DisableAndReturn(io, None)

InitMouse ==
    \E d \in Dims :
        /\ InitGrid(d[1], d[2])
        /\ last = [op |-> "new", width |-> d[1], height |-> d[2]]

GetMouseClick(button, io) ==
    LET r == get_mouse_click(Self, button, io, mouseCapture)
    IN  /\ mouseCapture' = r.capture
        /\ last' = [op |-> "get_mouse_click", button |-> button, io |-> io,
                    before |-> mouseCapture, result |-> r.result]
        /\ UNCHANGED <<grid, changes, width, height, terminal, sets, draws, painted>>

GetMouseClickOrDrag(button, io) ==
    LET r == get_mouse_click_or_drag(Self, button, io, mouseCapture)
    IN  /\ mouseCapture' = r.capture
        /\ last' = [op |-> "get_mouse_click_or_drag", button |-> button,
                    io |-> io, before |-> mouseCapture, result |-> r.result]
        /\ UNCHANGED <<grid, changes, width, height, terminal, sets, draws, painted>>

NextMouse ==
    \/ \E button \in Buttons, io \in IoOutcomes(width, height) :
            GetMouseClick(button, io)
    \/ \E button \in Buttons, io \in IoOutcomes(width, height) :
            GetMouseClickOrDrag(button, io)

SpecMouse == InitMouse /\ [][NextMouse]_vars

-----------------------------------------------------------------------------
(* Properties *)

InBounds(x, y) == x < width /\ y < height

\* the points of a sequence of recorded renders
RenderedPoints(rendered) ==
    [i \in 1..Len(rendered) |-> Point_new(rendered[i].x, rendered[i].y)]

\* C1: an in-bounds set_cell(x, y, c) returns Ok, afterwards get_cell(x, y)
\* returns c, and get_cell of every other position returns what it returned
\* before the call.
SetCellInBounds ==
    [][(last'.op = "set_cell" /\ InBounds(last'.x, last'.y)) =>
        /\ last'.result = "Ok"
        /\ get_cell(Self', last'.x, last'.y) = last'.cell
        /\ \A px \in 0..width, py \in 0..height :
              <<px, py>> # <<last'.x, last'.y>> =>
                  get_cell(Self', px, py) = get_cell(Self, px, py)]_vars

\* a filled cell was stored at one position while another position keeps the
\* filled cell it had
SetCellInBoundsWitness ==
    /\ last.op = "set_cell"
    /\ last.result = "Ok"
    /\ IsSome(last.cell)
    /\ get_cell(Self, last.x, last.y) = last.cell
    /\ \E px \in 0..(width - 1), py \in 0..(height - 1) :
          /\ <<px, py>> # <<last.x, last.y>>
          /\ IsSome(get_cell(Self, px, py))

\* C2: set_cell(x, y, c) with x >= width or y >= height returns the
\* out-of-range error and changes neither a cell, nor the pending changes,
\* nor width, nor height.
SetCellOutOfRange ==
    [][(last'.op = "set_cell" /\ ~InBounds(last'.x, last'.y)) =>
        /\ last'.result = "Err"
        /\ UNCHANGED <<grid, changes, width, height>>]_vars

\* an out-of-range set_cell of a filled cell was rejected on a grid that has
\* pending changes
SetCellOutOfRangeWitness ==
    /\ last.op = "set_cell"
    /\ ~InBounds(last.x, last.y)
    /\ IsSome(last.cell)
    /\ last.result = "Err"
    /\ changes # <<>>

\* C3 as stated: the first draw() renders every position of the grid,
\* whatever set_cell calls were made before it.
FirstDrawIsFull ==
    [][(draws = 0 /\ draws' = 1 /\ last'.result = "Ok") =>
        RenderedPoints(last'.rendered) = AllPoints(Self)]_vars

\* C3 amended: the first draw() renders every position when no set_cell
\* succeeded before it, and otherwise renders exactly the positions those
\* set_cell calls recorded, so a partial redraw can precede any full redraw.
FirstDrawFullOrPending ==
    [][(draws = 0 /\ draws' = 1 /\ last'.result = "Ok") =>
        RenderedPoints(last'.rendered) =
            IF sets = 0 THEN AllPoints(Self) ELSE changes]_vars

\* the first draw() came after a successful set_cell and rendered fewer
\* positions than the grid has
FirstDrawFullOrPendingWitness ==
    /\ draws = 1
    /\ sets > 0
    /\ last.op = "draw"
    /\ last.result = "Ok"
    /\ Len(last.rendered) < width * height

\* C4 as stated: with no set_cell at all, the first draw() is a full redraw
\* and the second draw() writes no cell.
SecondDrawIsNoOp ==
    /\ (draws = 1 /\ sets = 0 /\ last.op = "draw" /\ last.result = "Ok") =>
          RenderedPoints(last.rendered) = AllPoints(Self)
    /\ (draws = 2 /\ sets = 0 /\ last.op = "draw") => last.rendered = <<>>

\* C4 amended: with no set_cell at all, the first draw() is a full redraw and
\* the second draw() directly after it is a full redraw again (when the
\* terminal writes succeed).
SecondDrawIsFullAgain ==
    [][(/\ sets = 0
        /\ draws = 1 /\ last.op = "draw" /\ last.result = "Ok"
        /\ draws' = 2 /\ last'.result = "Ok") =>
            /\ RenderedPoints(last.rendered) = AllPoints(Self)
            /\ RenderedPoints(last'.rendered) = AllPoints(Self)
            /\ \A i \in 1..Len(last'.rendered) : last'.rendered[i].cell = None]_vars

\* the second draw() on a grid of several cells that was never set rendered
\* every position
SecondDrawIsFullAgainWitness ==
    /\ draws = 2
    /\ sets = 0
    /\ last.op = "draw"
    /\ last.result = "Ok"
    /\ width * height > 1
    /\ Len(last.rendered) = width * height
    /\ \A p \in DOMAIN terminal : terminal[p] = [bg |-> "Reset", ch |-> 32]

\* C5: a draw() with pending changes whose terminal writes all succeed renders
\* exactly the recorded positions, one render per entry and in the recorded
\* order, each with the current content of its cell, and empties the list.
DrawRendersPending ==
    [][(draws' = draws + 1 /\ changes # <<>> /\ last'.result = "Ok") =>
        /\ last'.rendered =
              [i \in 1..Len(changes) |->
                  [x |-> changes[i].x, y |-> changes[i].y,
                   cell |-> grid[changes[i].y][changes[i].x]]]
        /\ changes' = <<>>]_vars

\* a position that was set twice, first filled and then cleared, was rendered
\* twice by one draw(), both times as empty
DrawRendersPendingWitness ==
    /\ last.op = "draw"
    /\ last.result = "Ok"
    /\ sets = 2
    /\ Len(last.rendered) = 2
    /\ last.rendered[1] = last.rendered[2]
    /\ changes = <<>>

IsMouseCall == last.op \in {"get_mouse_click", "get_mouse_click_or_drag"}

\* the call read a mouse event that the called function matches
MatchingEvent ==
    /\ IsMouseCall
    /\ last.io.enable
    /\ last.io.read.tag = "Ok"
    /\ last.io.read.event.type = "Mouse"
    /\ \/ last.io.read.event.kind = Down(last.button)
       \/ /\ last.op = "get_mouse_click_or_drag"
          /\ last.io.read.event.kind = Drag(last.button)

\* C6: the mouse mapping returns (x, y) only if x < width and y < height, and
\* returns None for a matching event whose mapped coordinate is past either
\* bound.
ClickOutsideIsNone ==
    (IsMouseCall /\ last.result.tag = "Ok") =>
        /\ IsSome(last.result.val) =>
              InBounds(Unwrap(last.result.val)[1], Unwrap(last.result.val)[2])
        /\ (/\ MatchingEvent
            /\ ~InBounds(last.io.read.event.column \div 2, last.io.read.event.row))
              => last.result.val = None

\* the screen positions that rendering the cell (x, y) writes to
RenderedAt(x, y) ==
    {p \in DOMAIN terminal :
        draw_cell(Screen(width, height), x, y, Cell_default)[p] # Unpainted}

\* a press of the left button at column 10, row 5
ExamplePress ==
    [enable |-> TRUE, disable |-> TRUE,
     read |-> [tag |-> "Ok",
               event |-> [type |-> "Mouse", kind |-> Down("Left"),
                          column |-> 10, row |-> 5]]]

\* C7: a matching event at any screen position that the in-bounds cell (x, y)
\* is rendered on maps to (x, y), and these positions are (2x, y) and
\* (2x + 1, y); column 10, row 5 on a 40 x 20 grid maps to (5, 5).
MouseInvertsScaling ==
    /\ \A x \in 0..(width - 1), y \in 0..(height - 1) :
          /\ RenderedAt(x, y) = {<<2 * x, y>>, <<2 * x + 1, y>>}
          /\ (/\ MatchingEvent
              /\ last.result.tag = "Ok"
              /\ <<last.io.read.event.column, last.io.read.event.row>>
                    \in RenderedAt(x, y))
                => last.result.val = Some(<<x, y>>)
    /\ get_mouse_click(Grid_new(40, 20), "Left", ExamplePress, FALSE).result
          = [tag |-> "Ok", val |-> Some(<<5, 5>>)]

\* a press on the odd column of the cell (1, 1) was mapped to (1, 1)
MouseInvertsScalingWitness ==
    /\ MatchingEvent
    /\ last.op = "get_mouse_click"
    /\ last.io.read.event.column = 3
    /\ last.io.read.event.row = 1
    /\ InBounds(1, 1)
    /\ last.result = [tag |-> "Ok", val |-> Some(<<1, 1>>)]

\* C8: Grid::new(width, height) yields a grid of those dimensions in which
\* every in-bounds get_cell is empty and no change is pending.
NewGridIsEmpty ==
    last.op = "new" =>
        /\ width = last.width
        /\ height = last.height
        /\ \A x \in 0..(last.width - 1), y \in 0..(last.height - 1) :
              /\ y \in DOMAIN grid
              /\ x \in DOMAIN grid[y]
              /\ get_cell(Self, x, y) = None
        /\ changes = <<>>

\* a grid that is wider than high was constructed
NewGridIsEmptyWitness ==
    /\ last.op = "new"
    /\ last.width = 2
    /\ last.height = 1
    /\ get_cell(Self, 1, 0) = None

\* C9: get_cell(x, y) returns None when (x, y) is out of bounds or the
\* position is empty and the stored cell otherwise, and changes neither a cell
\* nor the pending changes.
GetCellTotalReadOnly ==
    [][last'.op = "get_cell" =>
        /\ last'.result = IF InBounds(last'.x, last'.y)
                          THEN grid[last'.y][last'.x]
                          ELSE None
        /\ UNCHANGED <<grid, changes>>]_vars

\* get_cell returned None for a column past the width, on a grid that holds a
\* filled cell and has a pending change
GetCellTotalReadOnlyWitness ==
    /\ last.op = "get_cell"
    /\ last.x >= width
    /\ last.y < height
    /\ last.result = None
    /\ changes # <<>>
    /\ \E x \in 0..(width - 1), y \in 0..(height - 1) : IsSome(grid[y][x])

\* C10: Cell::build(color, value) returns a cell if and only if value has
\* exactly 2 characters, so every cell holds a value of exactly 2 characters.
BuildIffTwoChars ==
    last.op = "build" =>
        /\ IsSome(last.result) <=> CharCount(last.value) = 2
        /\ IsSome(last.result) => CharCount(Unwrap(last.result).value) = 2

\* C11: for every size the size query reports, new_full_screen returns Ok with
\* a grid of width columns - 1 and height rows - 1, and it returns an error
\* exactly when the size query fails.
FullScreenIsSizeMinusOne ==
    last.op = "new_full_screen" =>
        /\ last.size.tag = "Ok" =>
              /\ last.result = "Ok"
              /\ width = last.size.columns - 1
              /\ height = last.size.rows - 1
              /\ DOMAIN grid = 0..(height - 1)
              /\ \A y \in DOMAIN grid : DOMAIN grid[y] = 0..(width - 1)
        /\ last.result = "Err" <=> last.size.tag = "Err"

\* C12: for every grid Grid::new can construct and every position draw()
\* visits, the conversion to the terminal position (2x, y) does not fail: x
\* and y fit a u16 and 2x does not overflow it.
PositionIsInfallible ==
    last.op = "visit" =>
        last.result = [tag |-> "Ok", column |-> 2 * last.x, row |-> last.y]

\* the call read an event
ReadEvent == IsMouseCall /\ last.io.enable /\ last.io.read.tag = "Ok"

\* the event read is a mouse event of the given kind
ReadKind(kind) ==
    /\ ReadEvent
    /\ last.io.read.event.type = "Mouse"
    /\ last.io.read.event.kind = kind

\* the outcomes of the call, had the event been a press of the requested
\* button at the same position
AsPress == [last.io EXCEPT !.read.event.kind = Down(last.button)]

\* C13: get_mouse_click_or_drag maps a drag of the requested button as it maps
\* a press of that button at the same position, and returns what
\* get_mouse_click returns on every event that is not such a drag;
\* get_mouse_click returns None for a drag, and both return None for an event
\* that is not a mouse event or is of another button.
DragMapsAsPress ==
    ReadEvent =>
        /\ (last.op = "get_mouse_click_or_drag" /\ ReadKind(Drag(last.button))) =>
              last.result =
                  get_mouse_click_or_drag(Self, last.button, AsPress, last.before).result
        /\ (last.op = "get_mouse_click_or_drag" /\ ~ReadKind(Drag(last.button))) =>
              last.result =
                  get_mouse_click(Self, last.button, last.io, last.before).result
        /\ (/\ last.result.tag = "Ok"
            /\ \/ last.op = "get_mouse_click" /\ \E b \in Buttons : ReadKind(Drag(b))
               \/ last.io.read.event.type # "Mouse"
               \/ \E b \in Buttons \ {last.button} :
                      ReadKind(Down(b)) \/ ReadKind(Drag(b)))
              => last.result.val = None

\* a drag of the requested button over the cell (1, 0) was mapped to (1, 0)
DragMapsAsPressWitness ==
    /\ last.op = "get_mouse_click_or_drag"
    /\ ReadKind(Drag(last.button))
    /\ last.io.read.event.column = 2
    /\ last.io.read.event.row = 0
    /\ InBounds(1, 0)
    /\ last.result = [tag |-> "Ok", val |-> Some(<<1, 0>>)]

\* the cell storage has height rows of width positions each
StorageIsRectangle ==
    /\ DOMAIN grid = 0..(height - 1)
    /\ \A y \in DOMAIN grid : DOMAIN grid[y] = 0..(width - 1)

\* C14: after any sequence of set_cell, get_cell and draw calls, width and
\* height are the values given at construction and at least 1, and the cell
\* storage has exactly height rows of exactly width positions.
DimensionsAreFixed ==
    /\ [](width >= 1 /\ height >= 1 /\ StorageIsRectangle)
    /\ [](last.op = "new" => width = last.width /\ height = last.height)
    /\ [][width' = width /\ height' = height]_vars

\* an out-of-range set_cell was rejected on a 2 x 1 grid after a successful
\* set_cell and a draw
DimensionsAreFixedWitness ==
    /\ sets >= 1
    /\ draws >= 1
    /\ last.op = "set_cell"
    /\ last.result = "Err"
    /\ width = 2
    /\ height = 1
    /\ StorageIsRectangle

\* C15: every point of the pending changes is in bounds, and each set_cell
\* that returns Ok appends exactly one entry, its own (x, y), to the end of the
\* list.
PendingAreInBounds ==
    /\ [](\A i \in 1..Len(changes) : InBounds(changes[i].x, changes[i].y))
    /\ [][(last'.op = "set_cell" /\ last'.result = "Ok") =>
            changes' = Append(changes, Point_new(last'.x, last'.y))]_vars

\* a second change, at another position than the first, was appended
PendingAreInBoundsWitness ==
    /\ last.op = "set_cell"
    /\ last.result = "Ok"
    /\ Len(changes) = 2
    /\ changes[1] # changes[2]
    /\ changes[2] = Point_new(last.x, last.y)
    /\ last.x # last.y

\* the screen shows the content of the position (x, y) of the grid: the
\* colour of a cell on both of its columns and the characters of its value
\* from the first column on, or two spaces on the reset background
ShowsCell(x, y) ==
    LET content == grid[y][x]
    IN  IF IsSome(content)
        THEN /\ \A i \in 1..2 :
                   terminal[<<2 * x + i - 1, y>>].bg = Unwrap(content).color
             /\ \A i \in 1..Len(Unwrap(content).value) :
                   terminal[<<2 * x + i - 1, y>>].ch = Unwrap(content).value[i]
        ELSE \A i \in 1..2 :
                terminal[<<2 * x + i - 1, y>>] = [bg |-> "Reset", ch |-> 32]

TerminalShowsGrid ==
    \A x \in 0..(width - 1), y \in 0..(height - 1) : ShowsCell(x, y)

\* C16: once a full draw has completed, the screen shows the current content
\* of every position of the grid immediately after each draw() that returns
\* Ok.
TerminalTracksGrid ==
    (painted /\ last.op = "draw" /\ last.result = "Ok") => TerminalShowsGrid

\* C17: a draw() in which a terminal write fails stops there and returns the
\* error, changes no cell and leaves the pending changes as they were; the
\* draw() after it renders every recorded change (the whole grid when none is
\* recorded).
FailedDrawKeepsPending ==
    [][/\ (draws' = draws + 1 /\ last'.result = "Err") =>
            /\ Len(last'.rendered) < Writes(Self)
            /\ grid' = grid
            /\ changes' = changes
       /\ (/\ last.op = "draw" /\ last.result = "Err"
           /\ draws' = draws + 1 /\ last'.result = "Ok") =>
            RenderedPoints(last'.rendered) =
                IF changes = <<>> THEN AllPoints(Self) ELSE changes]_vars

\* a draw() of two pending changes failed at its second write and both
\* changes are still pending
FailedDrawKeepsPendingWitness ==
    /\ last.op = "draw"
    /\ last.result = "Err"
    /\ Len(last.rendered) = 1
    /\ Len(changes) = 2
    /\ IsSome(grid[changes[2].y][changes[2].x])

IsDisabledPath ==
    /\ IsMouseCall
    /\ last.io.enable
    /\ last.io.read.tag = "Err" \/ last.io.disable

\* C18: a call of get_mouse_click or get_mouse_click_or_drag that enabled
\* mouse capture has disabled it when it returns, whether it read a matching
\* event inside or outside the grid, another event, or the read failed.
CaptureIsDisabledOnReturn ==
    IsDisabledPath => ~mouseCapture

====
